---- MODULE Spec2Model ----
(***************************************************************************)
(* Model of grunions/blobstore: the LocalBlob encode pipeline (blob.go),   *)
(* the tar packer (tar.go) and the S3 dedup-then-upload protocol           *)
(* (blobstore.go).                                                         *)
(***************************************************************************)
EXTENDS Integers, Sequences, FiniteSets, TLC

(* ------------------------------ bounds --------------------------------- *)
\* number of UploadDir calls made in sequence on the same S3 value
MaxCalls == 2
\* block size of the compressor (bytes buffered before a block is emitted)
GzBlock == 2
\* a disk budget no single call exhausts: the disk does not fail
NoFault == 16
\* number of failures the environment injects in one run (temporary file,
\* walk, open, disk, close, client, lookup, put, delete, remove)
MaxFaults == 3
\* the same, in runs that mix UploadDir and ReaderToBlob calls
MixFaults == 1
\* number of entries of a zip archive
MaxZip == 3

(* --------------------------- small helpers ----------------------------- *)
Min(a, b) == IF a < b THEN a ELSE b

Nil == -1

DropFirst(s, k) == SubSeq(s, k + 1, Len(s))

IsPrefix(p, s) == Len(p) <= Len(s) /\ SubSeq(s, 1, Len(p)) = p

(* ------------------------ sha256 (blob.hw) ----------------------------- *)
\* The hash state is the sequence of bytes absorbed so far; Sum folds it
\* into a 16 bit digest.
HashMod == 65521
HashMul == 257

RECURSIVE Sum(_)
Sum(s) ==
    IF s = <<>> THEN 0
    ELSE (Sum(SubSeq(s, 1, Len(s) - 1)) * HashMul + s[Len(s)] + 1) % HashMod

(* ---------------------- fmt.Sprintf("blob/%x.gz") ---------------------- *)
HexDigits == <<"0", "1", "2", "3", "4", "5", "6", "7",
               "8", "9", "a", "b", "c", "d", "e", "f">>

\* %x of a two byte digest: two lower-case hex characters per byte
Hex(d) == << HexDigits[((d \div 4096) % 16) + 1],
             HexDigits[((d \div 256) % 16) + 1],
             HexDigits[((d \div 16) % 16) + 1],
             HexDigits[(d % 16) + 1] >>

RemoteFilename(hash) == <<"b", "l", "o", "b", "/">> \o Hex(hash) \o <<".", "g", "z">>

(* ------------------------ strconv formatting --------------------------- *)
RECURSIVE FormatInt(_)
FormatInt(n) ==
    IF n < 10 THEN << HexDigits[n + 1] >>
    ELSE FormatInt(n \div 10) \o << HexDigits[(n % 10) + 1] >>

FormatBool(b) == IF b THEN "true" ELSE "false"

(* --------------------------- pgzip writer ------------------------------ *)
GzHeader == <<31, 139>>

GzTrailer(size) == << size >>

RECURSIVE RunLen(_)
RunLen(s) ==
    IF Len(s) <= 1 THEN Len(s)
    ELSE IF s[2] = s[1] THEN 1 + RunLen(Tail(s)) ELSE 1

\* compression of one block: (byte, run length) pairs
RECURSIVE GzDeflate(_)
GzDeflate(s) ==
    IF s = <<>> THEN <<>>
    ELSE <<s[1], RunLen(s)>> \o GzDeflate(DropFirst(s, RunLen(s)))

\* the whole compressed stream of an uncompressed stream s
RECURSIVE GzBlocks(_)
GzBlocks(s) ==
    IF Len(s) <= GzBlock THEN GzDeflate(s)
    ELSE GzDeflate(SubSeq(s, 1, GzBlock)) \o GzBlocks(DropFirst(s, GzBlock))

GzStream(s) == GzHeader \o GzBlocks(s) \o GzTrailer(Len(s))

(* ----------------------------- LocalBlob ------------------------------- *)
\* File = 0 stands for a nil *os.File.  fopen: the descriptor is open.
NewGw == [buf |-> <<>>, wroteHeader |-> FALSE, err |-> FALSE,
          closed |-> FALSE, size |-> 0]

LocalBlob(name) ==
    [IsDir |-> FALSE, Reference |-> <<>>, File |-> name, fopen |-> name # 0,
     pw |-> 0, ccw |-> 0, ucw |-> 0, hw |-> <<>>, gw |-> NewGw]

NoBlob == LocalBlob(0)

\* Results of the writers: the blob and file system after the call, the
\* byte count n and the error flag the call returns, the order in which the
\* stages took effect, and what is left of the disk's budget.
Ret(b, f, n, err, log, left) ==
    [blob |-> b, fs |-> f, n |-> n, err |-> err, log |-> log, left |-> left]

\* os.File.Write: disk is the number of write system calls that still
\* succeed before the disk fails
FileWrite(b, f, p, disk) ==
    IF disk > 0 /\ b.fopen /\ b.File \in DOMAIN f
    THEN Ret(b, [f EXCEPT ![b.File] = @ \o p], Len(p), FALSE, <<>>, disk - 1)
    ELSE Ret(b, f, 0, TRUE, <<>>, disk)

\* datacounter.WriterCounter.Write, after the wrapped writer returned r:
\* the count grows by the n it returned
CountCompressed(r) == [r EXCEPT !.blob.ccw = @ + r.n]

\* blob.ccw: datacounter.WriterCounter around blob.File
CcwWrite(b, f, p, disk) == CountCompressed(FileWrite(b, f, p, disk))

RECURSIVE GwLoop(_, _, _, _, _)
\* a block was handed to the underlying writer with result r
GwEmitted(r, rest, done, length) ==
    IF r.err
    THEN Ret([r.blob EXCEPT !.gw.err = TRUE], r.fs, done, TRUE, <<>>, r.left)
    ELSE GwLoop(r.blob, r.fs, rest, done + length, r.left)

\* pgzip.Writer.Write main loop: fill the current block, emit it when full
GwLoop(b, f, q, done, disk) ==
    IF q = <<>> THEN Ret(b, f, done, FALSE, <<>>, disk)
    ELSE LET length == Min(Len(q), GzBlock - Len(b.gw.buf))
             buf1   == b.gw.buf \o SubSeq(q, 1, length)
         IN  IF Len(buf1) = GzBlock
             THEN GwEmitted(CcwWrite([b EXCEPT !.gw.size = @ + length, !.gw.buf = <<>>],
                                     f, GzDeflate(buf1), disk),
                            DropFirst(q, length), done, length)
             ELSE GwLoop([b EXCEPT !.gw.size = @ + length, !.gw.buf = buf1], f,
                         DropFirst(q, length), done + length, disk)

\* the lazily written gzip header went out with result r
GwAfterHeader(r, p) ==
    IF r.err THEN Ret([r.blob EXCEPT !.gw.err = TRUE], r.fs, 0, TRUE, <<>>, r.left)
    ELSE GwLoop(r.blob, r.fs, p, 0, r.left)

\* pgzip.Writer.Write: sticky error, lazy header, then the block loop
GwWrite(b, f, p, disk) ==
    IF b.gw.err \/ b.gw.closed THEN Ret(b, f, 0, TRUE, <<>>, disk)
    ELSE IF ~b.gw.wroteHeader
         THEN GwAfterHeader(CcwWrite([b EXCEPT !.gw.wroteHeader = TRUE], f, GzHeader, disk), p)
         ELSE GwLoop(b, f, p, 0, disk)

\* the error of the final write becomes the writer's error
GwClosed(r) == IF r.err THEN [r EXCEPT !.blob.gw.err = TRUE] ELSE r

\* pgzip.Writer.Close: header if none yet, last block, trailer
GwClose(b, f, disk) ==
    IF b.gw.closed THEN Ret(b, f, 0, FALSE, <<>>, disk)
    ELSE IF b.gw.err THEN Ret(b, f, 0, TRUE, <<>>, disk)
    ELSE GwClosed(CcwWrite([b EXCEPT !.gw.wroteHeader = TRUE, !.gw.buf = <<>>,
                                     !.gw.closed = TRUE],
                           f,
                           (IF b.gw.wroteHeader THEN <<>> ELSE GzHeader)
                               \o GzDeflate(b.gw.buf) \o GzTrailer(b.gw.size),
                           disk))

\* datacounter.WriterCounter.Write, after the wrapped gzip writer returned
\* r: the count grows by the n it returned
CountUncompressed(r) == [r EXCEPT !.blob.ucw = @ + r.n, !.log = <<"gw", "ucw">>]

\* blob.ucw: datacounter.WriterCounter around blob.gw
UcwWrite(b, f, p, disk) == CountUncompressed(GwWrite(b, f, p, disk))

\* a hash writer that drops the chunk
HwWrite_Drop(b, f, p, disk) ==
    Ret(b, f, Len(p), FALSE, <<"hw">>, disk)

\* blob.hw: sha256 never fails
HwWrite(b, f, p, disk) ==
    Ret([b EXCEPT !.hw = @ \o p], f, Len(p), FALSE, <<"hw">>, disk)

\* blob.pw: the progress bar adds the length
PwWrite(b, f, p, disk) ==
    Ret([b EXCEPT !.pw = @ + Len(p)], f, Len(p), FALSE, <<"pw">>, disk)

\* the hash placed before the counting writer
Writers_HashFirst == <<"hw", "ucw", "pw">>

\* the writers handed to io.MultiWriter, in the order given
Writers == <<"ucw", "hw", "pw">>

StageWrite(w, b, f, p, disk) ==
    CASE w = "ucw" -> UcwWrite(b, f, p, disk)
      [] w = "hw"  -> HwWrite(b, f, p, disk)
      [] w = "pw"  -> PwWrite(b, f, p, disk)

RECURSIVE MultiWrite(_, _, _, _, _, _, _)
\* writer i returned r: stop at an error or a short write, else go on
MultiNext(ws, i, p, log, r) ==
    IF r.err \/ r.n # Len(p)
    THEN Ret(r.blob, r.fs, r.n, TRUE, log \o r.log, r.left)
    ELSE MultiWrite(ws, i + 1, r.blob, r.fs, p, r.left, log \o r.log)

\* io.MultiWriter.Write: each writer in turn
MultiWrite(ws, i, b, f, p, disk, log) ==
    IF i > Len(ws) THEN Ret(b, f, Len(p), FALSE, log, disk)
    ELSE MultiNext(ws, i, p, log, StageWrite(ws[i], b, f, p, disk))

\* LocalBlob.Write
BlobWrite(b, f, p, disk) == MultiWrite(Writers, 1, b, f, p, disk, <<>>)

\* os.File.Close: an already closed file reports an error
FileClose(b, closeOk) ==
    [blob |-> [b EXCEPT !.fopen = FALSE], err |-> ~(b.fopen /\ closeOk)]

\* blob.File.Close() after gw.Close() returned g: the result of gw.Close
\* is dropped (gzErr is kept here only for the record)
CloseFile(g, closeOk) ==
    [blob |-> FileClose(g.blob, closeOk).blob, fs |-> g.fs,
     err |-> FileClose(g.blob, closeOk).err, gzErr |-> g.err]

\* LocalBlob.Close
BlobClose(b, f, disk, closeOk) == CloseFile(GwClose(b, f, disk), closeOk)

Size(b) == b.ccw

UncompressedSize(b) == b.ucw

Hash(b) == Sum(b.hw)

(* ------------------------------ tar.go --------------------------------- *)
Sep == 47
TypeReg == 48
TypeDir == 53

\* strings.Replace(s, old, "", -1): every non-overlapping occurrence of old
\* is removed, scanning from the left
RECURSIVE RemoveAll(_, _)
RemoveAll(s, old) ==
    IF Len(s) < Len(old) \/ old = <<>> THEN s
    ELSE IF IsPrefix(old, s) THEN RemoveAll(DropFirst(s, Len(old)), old)
    ELSE <<s[1]>> \o RemoveAll(Tail(s), old)

TrimPrefix(s, p) == IF IsPrefix(p, s) THEN DropFirst(s, Len(p)) ELSE s

\* header.Name as TarDir sets it
HeaderName(file, src) == TrimPrefix(RemoveAll(file, src), <<Sep>>)

\* The header block tar.Writer.WriteHeader writes: NUL terminated name,
\* size, type flag (ModTime is reset, so nothing else varies)
TarHeader(e, src) ==
    HeaderName(e.file, src) \o <<0>> \o
    << (IF e.reg THEN Len(e.data) ELSE 0), (IF e.reg THEN TypeReg ELSE TypeDir) >>

\* the end-of-archive marker tar.Writer.Close writes
TarTrailer == <<0, 0>>

NewTw == [err |-> FALSE, nb |-> 0]

\* a tar.Writer call that fails before it writes
TwRefused(tw, b, f, disk) ==
    [tw |-> [tw EXCEPT !.err = TRUE], w |-> Ret(b, f, 0, TRUE, <<>>, disk), wrote |-> <<>>]

\* the header block h went to blob.Write with result r: the error sticks,
\* size bytes of content are now expected
TwHeaderDone(r, size, h) == [tw |-> [err |-> r.err, nb |-> size], w |-> r, wrote |-> h]

\* tar.Writer.WriteHeader on the blob: fails on a sticky error or on
\* unwritten content of the previous entry, else writes the header block
TwWriteHeader(tw, b, f, e, src, disk) ==
    IF tw.err \/ tw.nb > 0 THEN TwRefused(tw, b, f, disk)
    ELSE TwHeaderDone(BlobWrite(b, f, TarHeader(e, src), disk),
                      IF e.reg THEN Len(e.data) ELSE 0, TarHeader(e, src))

\* the content chunk p went to blob.Write with result r
TwWritten(r, nb, p) == [tw |-> [err |-> r.err, nb |-> nb - r.n], w |-> r, wrote |-> p]

\* io.CopyBuffer(tw, f, copyBuffer): one tar.Writer.Write per chunk read;
\* an empty file produces no Write
TwCopy(tw, b, f, data, disk) ==
    IF data = <<>> THEN [tw |-> tw, w |-> Ret(b, f, 0, FALSE, <<>>, disk), wrote |-> <<>>]
    ELSE IF tw.err THEN TwRefused(tw, b, f, disk)
    ELSE TwWritten(BlobWrite(b, f, data, disk), tw.nb, data)

\* the trailer went to blob.Write with result r; the writer is closed
TwTrailerDone(r) == [tw |-> [err |-> TRUE, nb |-> 0], w |-> r, wrote |-> TarTrailer]

\* the deferred tw.Close(): nothing on a sticky error or when content is
\* missing, else the trailer; TarDir does not look at its result
TwClose(tw, b, f, disk) ==
    IF tw.err \/ tw.nb > 0 THEN TwRefused(tw, b, f, disk)
    ELSE TwTrailerDone(BlobWrite(b, f, TarTrailer, disk))

\* Source trees, entries in the lexical order filepath.Walk visits them.
\* Paths are character sequences: 97 = 'a', 98 = 'b', 47 = '/'.
Dir(file) == [file |-> file, reg |-> FALSE, data |-> <<>>]

Reg(file, data) == [file |-> file, reg |-> TRUE, data |-> data]

Trees ==
    { [src |-> <<97>>, exists |-> FALSE, entries |-> <<>>],
      [src |-> <<97>>, exists |-> TRUE,  entries |-> << Dir(<<97>>) >>],
      [src |-> <<97>>, exists |-> TRUE,
       entries |-> << Dir(<<97>>), Reg(<<97, 47, 98>>, <<1, 1, 2>>) >>],
      [src |-> <<98>>, exists |-> TRUE,
       entries |-> << Dir(<<98>>), Dir(<<98, 47, 97>>),
                      Reg(<<98, 47, 97, 47, 97>>, <<5>>) >>] }

\* the byte stream TarDir produces for a tree when nothing fails
RECURSIVE TarEntries(_, _)
TarEntries(es, src) ==
    IF es = <<>> THEN <<>>
    ELSE TarHeader(Head(es), src) \o Head(es).data \o TarEntries(Tail(es), src)

TarStream(t) == TarEntries(t.entries, t.src) \o TarTrailer

(* --------------------------- remote store ------------------------------ *)
\* The bucket is a set of objects [key, size, meta], at most one per key.
ObjectsAt(rem, key) == { o \in rem : o.key = key }

Lookups == {"GetErr", "StatErr", "Ok"}

\* client.GetObject followed by o.Stat(): an error, or the object's size
StatObject(rem, key, lookup) ==
    IF lookup # "Ok" THEN [err |-> TRUE, size |-> Nil, res |-> lookup]
    ELSE IF ObjectsAt(rem, key) = {} THEN [err |-> TRUE, size |-> Nil, res |-> "NotFound"]
    ELSE [err |-> FALSE, size |-> (CHOOSE o \in ObjectsAt(rem, key) : TRUE).size,
          res |-> "Found"]

PutOutcomes == {"ok", "fail", "partial"}

UserMetadata(b) ==
    [UncompressedSize |-> FormatInt(UncompressedSize(b)),
     ReferenceName |-> b.Reference,
     IsDir |-> FormatBool(b.IsDir)]

\* client.FPutObject(bucket, key, path): uploads the file at path.  A failed
\* put leaves the bucket as it was or leaves a truncated object behind.
FPutObject(rem, key, path, f, meta, putOut) ==
    IF path \notin DOMAIN f THEN [remote |-> rem, err |-> TRUE, written |-> 0]
    ELSE LET full == Len(f[path])
             others == rem \ ObjectsAt(rem, key)
         IN  CASE putOut = "ok" ->
                    [remote |-> others \cup {[key |-> key, size |-> full, meta |-> meta]},
                     err |-> FALSE, written |-> full]
               [] putOut = "fail" -> [remote |-> rem, err |-> TRUE, written |-> 0]
               [] putOut = "partial" ->
                    [remote |-> others \cup {[key |-> key, size |-> full - 1, meta |-> meta]},
                     err |-> TRUE, written |-> full - 1]

\* client.RemoveObject(bucket, key)
RemoveObject(rem, key, delOk) ==
    IF delOk THEN rem \ ObjectsAt(rem, key) ELSE rem

\* S3.getClient: the cached client, or a new one; minio.New failing panics
GetClient(client, newOk) ==
    IF client THEN [client |-> TRUE, panic |-> FALSE]
    ELSE IF newOk THEN [client |-> TRUE, panic |-> FALSE]
    ELSE [client |-> FALSE, panic |-> TRUE]

\* CheckDuplicate comparing the uncompressed size
CheckDuplicate_Uncompressed(b, st) ==
    IF st.err THEN FALSE
    ELSE IF UncompressedSize(b) # st.size THEN FALSE
    ELSE TRUE

\* S3.CheckDuplicate, given the outcome of the lookup
CheckDuplicate(b, st) ==
    IF st.err THEN FALSE
    ELSE IF Size(b) # st.size THEN FALSE
    ELSE TRUE

LogEntry(c, op, key, ok, size) ==
    [call |-> c, op |-> op, key |-> key, ok |-> ok, size |-> size]

\* UploadBlob with the reference name made part of the key
UploadBlob_ReferenceInKey(b, f, rem, c, putOut, delOk) ==
    LET remoteFilename == RemoteFilename(Hash(b)) \o b.Reference
        put == FPutObject(rem, remoteFilename, b.File, f, UserMetadata(b), putOut)
    IN  IF put.err
        THEN [remote |-> RemoveObject(put.remote, remoteFilename, delOk),
              err |-> TRUE,
              log |-> << LogEntry(c, "put", remoteFilename, FALSE, Size(b)),
                         LogEntry(c, "delete", remoteFilename, delOk, Nil) >>]
        ELSE [remote |-> put.remote, err |-> FALSE,
              log |-> << LogEntry(c, "put", remoteFilename, TRUE, Size(b)) >>]

\* UploadBlob without the delete after a failed put
UploadBlob_NoDelete(b, f, rem, c, putOut, delOk) ==
    LET remoteFilename == RemoteFilename(Hash(b))
        put == FPutObject(rem, remoteFilename, b.File, f, UserMetadata(b), putOut)
    IN  [remote |-> put.remote, err |-> put.err,
         log |-> << LogEntry(c, "put", remoteFilename, ~put.err, Size(b)) >>]

\* S3.UploadBlob after getClient: one put, and on its failure one delete at
\* the same key whose outcome is ignored
UploadBlob(b, f, rem, c, putOut, delOk) ==
    LET remoteFilename == RemoteFilename(Hash(b))
        put == FPutObject(rem, remoteFilename, b.File, f, UserMetadata(b), putOut)
    IN  IF put.err
        THEN [remote |-> RemoveObject(put.remote, remoteFilename, delOk),
              err |-> TRUE,
              log |-> << LogEntry(c, "put", remoteFilename, FALSE, Size(b)),
                         LogEntry(c, "delete", remoteFilename, delOk, Nil) >>]
        ELSE [remote |-> put.remote, err |-> FALSE,
              log |-> << LogEntry(c, "put", remoteFilename, TRUE, Size(b)) >>]

\* UploadDir returning nil instead of the digest when the upload failed
AfterUpload_NilOnError(b, uploadErr) ==
    [digest |-> IF uploadErr THEN Nil ELSE Hash(b), err |-> uploadErr, panic |-> FALSE]

\* what UploadDir returns after UploadBlob: the digest in either case, with
\* the wrapped error when the upload failed
AfterUpload(b, uploadErr) ==
    [digest |-> Hash(b), err |-> uploadErr, panic |-> FALSE]

\* os.Remove(blob.File.Name())
Remove(f, name, rmOk) ==
    IF rmOk /\ name \in DOMAIN f THEN [n \in DOMAIN f \ {name} |-> f[n]] ELSE f

\* UploadDirDefers without the deferred os.Remove
UploadDirDefers_NoRemove(b, f, disk, closeOk, rmOk) ==
    [blob |-> BlobClose(b, f, disk, closeOk).blob,
     fs |-> BlobClose(b, f, disk, closeOk).fs]

\* the deferred calls of UploadDir, last registered first: blob.Close(),
\* then os.Remove(blob.File.Name())
UploadDirDefers(b, f, disk, closeOk, rmOk) ==
    [blob |-> BlobClose(b, f, disk, closeOk).blob,
     fs |-> Remove(BlobClose(b, f, disk, closeOk).fs, b.File, rmOk)]

(* ------------------------------ state ---------------------------------- *)
VARIABLES
    tree,      \* the source directory UploadDir is called on (unchanged)
    pc,        \* position of the caller: "idle" between calls, else inside UploadDir
    call,      \* number of UploadDir calls started
    blob,      \* the LocalBlob of the current call
    tw,        \* the tar.Writer of TarDir
    todo,      \* entries filepath.Walk (the loop of TarZip) has still to visit
    fs,        \* temporary files: name -> content
    client,    \* s3.client is set
    remote,    \* objects of the bucket
    netLog,    \* requests made to the remote store, in order
    retv,      \* what UploadDir is about to return
    results,   \* what each finished call returned
    written,   \* bytes passed to blob.Write in the current call
    lastw,     \* the last blob.Write call: chunk, result, order of effects
    obs,       \* what happened in the current call
    faults,    \* failures injected so far
    fr,        \* chunks the io.Reader given to ReaderToBlob has still to deliver
    addressed, \* blobs a remote key was derived from outside UploadDir, with the key
    zr,        \* zr.File: the entries of the zip archive given to TarZip
    tr,        \* bytes the tar.Reader of Untargz has still to read
    dst        \* what Untargz created below dst: path -> entry

vars == << tree, pc, call, blob, tw, todo, fs, client, remote, netLog, retv,
           results, written, lastw, obs, faults, fr, addressed, zr, tr, dst >>

\* the variables UploadDir does not touch
apart == << fr, addressed, zr, tr, dst >>

\* their values while no ReaderToBlob, TarZip or Untargz call is under way
Apart ==
    /\ fr = <<>>
    /\ addressed = {}
    /\ zr = <<>>
    /\ tr = <<>>
    /\ dst = << >>

\* the environment injects k more failures
Inject(k) == faults + k <= MaxFaults /\ faults' = faults + k

\* failures in a choice: a call that fails, a disk that fails
Bad(ok) == IF ok THEN 0 ELSE 1

DiskFault(disk) == IF disk = NoFault THEN 0 ELSE 1

Disk == {0, 1, NoFault}

NoWrite == [p |-> <<>>, n |-> 0, err |-> FALSE, log |-> <<>>]

NoRet == [digest |-> Nil, err |-> FALSE, panic |-> FALSE]

NewObs == [alloc |-> TRUE, tarErr |-> FALSE, wfail |-> FALSE, sealed |-> "none",
           gzErr |-> FALSE, fcErr |-> FALSE, key |-> <<>>, lookup |-> "none",
           dup |-> "none", rmOk |-> TRUE, op |-> "UploadDir", got |-> FALSE]

\* objects the bucket may hold before the first call: none, the blob of
\* the tree, or an object of another size at the blob's key
InitialRemotes(t) ==
    IF ~t.exists THEN { {} }
    ELSE LET s    == TarStream(t)
             key  == RemoteFilename(Sum(s))
             meta == [UncompressedSize |-> FormatInt(Len(s)), ReferenceName |-> <<>>,
                      IsDir |-> FormatBool(TRUE)]
         IN  { {},
               {[key |-> key, size |-> Len(GzStream(s)), meta |-> meta]},
               {[key |-> key, size |-> Len(GzStream(s)) + 1, meta |-> meta]} }

Init ==
    /\ tree \in Trees
    /\ remote \in InitialRemotes(tree)
    /\ pc = "idle"
    /\ call = 0
    /\ blob = NoBlob
    /\ tw = NewTw
    /\ todo = <<>>
    /\ fs = << >>
    /\ client = FALSE
    /\ netLog = <<>>
    /\ retv = NoRet
    /\ results = <<>>
    /\ written = <<>>
    /\ lastw = NoWrite
    /\ obs = NewObs
    /\ faults = 0
    /\ Apart

\* NewLocalBlob: ioutil.TempFile, then the pipeline is wired
NewLocalBlob(f, name, tmpOk) ==
    IF tmpOk
    THEN [blob |-> LocalBlob(name), err |-> FALSE,
          fs |-> [n \in DOMAIN f \cup {name} |-> IF n = name THEN <<>> ELSE f[n]]]
    ELSE [blob |-> NoBlob, err |-> TRUE, fs |-> f]

\* the record kept of a call when it returns
Result(rv, o) == [digest |-> rv.digest, err |-> rv.err, panic |-> rv.panic, obs |-> o]

\* bookkeeping of a tar.Writer call t that may have reached blob.Write
Wrote(t) ==
    /\ blob' = t.w.blob
    /\ fs' = t.w.fs
    /\ tw' = t.tw
    /\ IF t.wrote = <<>>
       THEN UNCHANGED << written, lastw >>
       ELSE /\ written' = written \o t.wrote
            /\ lastw' = [p |-> t.wrote, n |-> t.w.n, err |-> t.w.err, log |-> t.w.log]

(* ------------------------- UploadDir, step by step --------------------- *)
\* UploadDir up to the two defers (blobstore.go 130-136)
Begin ==
    /\ pc = "idle"
    /\ call < MaxCalls
    /\ \E tmpOk \in BOOLEAN :
         LET nb == NewLocalBlob(fs, call + 1, tmpOk)
         IN  /\ Inject(Bad(tmpOk))
             /\ call' = call + 1
             /\ fs' = nb.fs
             /\ IF nb.err
                THEN /\ blob' = nb.blob
                     /\ results' = Append(results,
                            Result([digest |-> Nil, err |-> TRUE, panic |-> FALSE],
                                   [NewObs EXCEPT !.alloc = FALSE]))
                     /\ pc' = "idle"
                ELSE /\ blob' = [nb.blob EXCEPT !.IsDir = TRUE]
                     /\ results' = results
                     /\ pc' = "stat"
    /\ tw' = NewTw
    /\ todo' = <<>>
    /\ retv' = NoRet
    /\ written' = <<>>
    /\ lastw' = NoWrite
    /\ obs' = NewObs
    /\ UNCHANGED << tree, client, remote, netLog >>
    /\ UNCHANGED apart

\* TarDir: os.Stat(src), then tar.NewWriter (tar.go 21-26)
TarStat ==
    /\ pc = "stat"
    /\ IF tree.exists
       THEN /\ todo' = tree.entries
            /\ pc' = "walk"
            /\ UNCHANGED << retv, obs >>
       ELSE /\ todo' = <<>>
            /\ obs' = [obs EXCEPT !.tarErr = TRUE]
            /\ retv' = [digest |-> Nil, err |-> TRUE, panic |-> FALSE]
            /\ pc' = "ret"
    /\ tw' = NewTw
    /\ UNCHANGED << tree, call, blob, fs, client, remote, netLog, results, written, lastw,
                    faults >>
    /\ UNCHANGED apart

\* the walk function after tw.WriteHeader returned t
HeaderWritten(t) ==
    /\ Wrote(t)
    /\ IF t.w.err
       THEN /\ obs' = [obs EXCEPT !.tarErr = TRUE, !.wfail = (t.wrote # <<>>)]
            /\ pc' = "twclose"
            /\ todo' = todo
       ELSE /\ obs' = obs
            /\ IF Head(todo).reg
               THEN pc' = "body" /\ todo' = todo
               ELSE /\ todo' = Tail(todo)
                    /\ pc' = IF Tail(todo) = <<>> THEN "twclose" ELSE "walk"

\* the walk function up to the Open of a regular file (tar.go 32-59)
WalkHeader ==
    /\ pc = "walk"
    /\ todo # <<>>
    /\ \E walkOk \in BOOLEAN, disk \in Disk :
         /\ ~walkOk => disk = NoFault
         /\ Inject(Bad(walkOk) + DiskFault(disk))
         /\ IF ~walkOk
            THEN /\ obs' = [obs EXCEPT !.tarErr = TRUE]
                 /\ pc' = "twclose"
                 /\ UNCHANGED << blob, fs, tw, todo, written, lastw >>
            ELSE HeaderWritten(TwWriteHeader(tw, blob, fs, Head(todo), tree.src, disk))
    /\ UNCHANGED << tree, call, client, remote, netLog, retv, results >>
    /\ UNCHANGED apart

\* the walk function after io.CopyBuffer returned t
BodyCopied(t) ==
    /\ Wrote(t)
    /\ IF t.w.err
       THEN /\ obs' = [obs EXCEPT !.tarErr = TRUE, !.wfail = (t.wrote # <<>>)]
            /\ pc' = "twclose"
            /\ todo' = todo
       ELSE /\ obs' = obs
            /\ todo' = Tail(todo)
            /\ pc' = IF Tail(todo) = <<>> THEN "twclose" ELSE "walk"

\* the walk function for a regular file: Open and CopyBuffer (tar.go 62-76)
WalkBody ==
    /\ pc = "body"
    /\ \E openOk \in BOOLEAN, disk \in Disk :
         /\ (~openOk \/ Head(todo).data = <<>>) => disk = NoFault
         /\ Inject(Bad(openOk) + DiskFault(disk))
         /\ IF ~openOk
            THEN /\ obs' = [obs EXCEPT !.tarErr = TRUE]
                 /\ pc' = "twclose"
                 /\ UNCHANGED << blob, fs, tw, todo, written, lastw >>
            ELSE BodyCopied(TwCopy(tw, blob, fs, Head(todo).data, disk))
    /\ UNCHANGED << tree, call, client, remote, netLog, retv, results >>
    /\ UNCHANGED apart

\* the deferred tw.Close() returned t; its error goes nowhere
TrailerWritten(t) ==
    /\ Wrote(t)
    /\ obs' = [obs EXCEPT !.wfail = @ \/ (t.wrote # <<>> /\ t.w.err)]

\* TarDir returns: the deferred tw.Close() runs and its result is dropped;
\* UploadDir then tests TarDir's error (tar.go 26, blobstore.go 138-140)
TarReturn ==
    /\ pc = "twclose"
    /\ \E disk \in Disk :
         /\ (tw.err \/ tw.nb > 0) => disk = NoFault
         /\ Inject(DiskFault(disk))
         /\ TrailerWritten(TwClose(tw, blob, fs, disk))
    /\ IF obs.tarErr
       THEN /\ retv' = [digest |-> Nil, err |-> TRUE, panic |-> FALSE]
            /\ pc' = "ret"
       ELSE /\ retv' = retv
            /\ pc' = "seal"
    /\ UNCHANGED << tree, call, todo, client, remote, netLog, results >>
    /\ UNCHANGED apart

\* UploadDir without the explicit blob.Close(): the blob stays open until
\* the deferred Close
Sealed_NoClose(c, closeOk) ==
    /\ blob' = blob
    /\ fs' = fs
    /\ obs' = obs
    /\ retv' = retv
    /\ pc' = "check"

\* UploadDir after its explicit blob.Close() returned c
Sealed(c, closeOk) ==
    /\ blob' = c.blob
    /\ fs' = c.fs
    /\ obs' = [obs EXCEPT !.gzErr = c.gzErr, !.fcErr = ~closeOk,
                          !.sealed = IF c.err THEN "err" ELSE "nil"]
    /\ IF c.err
       THEN /\ retv' = [digest |-> Nil, err |-> TRUE, panic |-> FALSE]
            /\ pc' = "ret"
       ELSE /\ retv' = retv
            /\ pc' = "check"

\* the explicit blob.Close() of UploadDir (blobstore.go 141-143)
Seal ==
    /\ pc = "seal"
    /\ \E disk \in Disk, closeOk \in BOOLEAN :
         /\ blob.gw.err => disk = NoFault
         /\ Inject(DiskFault(disk) + Bad(closeOk))
         /\ Sealed(BlobClose(blob, fs, disk, closeOk), closeOk)
    /\ UNCHANGED << tree, call, tw, todo, client, remote, netLog, results, written, lastw >>
    /\ UNCHANGED apart

\* s3.CheckDuplicate(blob) and the early exit (blobstore.go 145-148)
Check ==
    /\ pc = "check"
    /\ \E newOk \in BOOLEAN, lookup \in Lookups :
         LET g   == GetClient(client, newOk)
             key == RemoteFilename(Hash(blob))
             st  == StatObject(remote, key, lookup)
             dup == CheckDuplicate(blob, st)
         IN  /\ client => newOk
             /\ ~newOk => lookup = "Ok"
             /\ Inject(Bad(newOk) + Bad(lookup = "Ok"))
             /\ client' = g.client
             /\ IF g.panic
                THEN /\ retv' = [digest |-> Nil, err |-> FALSE, panic |-> TRUE]
                     /\ pc' = "ret"
                     /\ UNCHANGED << netLog, obs >>
                ELSE /\ netLog' = Append(netLog, LogEntry(call, "stat", key, ~st.err, st.size))
                     /\ obs' = [obs EXCEPT !.key = key, !.lookup = st.res,
                                           !.dup = IF dup THEN "true" ELSE "false"]
                     /\ IF dup
                        THEN /\ retv' = [digest |-> Hash(blob), err |-> FALSE, panic |-> FALSE]
                             /\ pc' = "ret"
                        ELSE /\ retv' = retv
                             /\ pc' = "upload"
    /\ UNCHANGED << tree, call, blob, tw, todo, fs, remote, results, written, lastw >>
    /\ UNCHANGED apart

\* s3.UploadBlob(blob) and the two returns after it (blobstore.go 150-154)
Upload ==
    /\ pc = "upload"
    /\ \E newOk \in BOOLEAN, putOut \in PutOutcomes, delOk \in BOOLEAN :
         LET g == GetClient(client, newOk)
             u == UploadBlob(blob, fs, remote, call, putOut, delOk)
         IN  /\ client => newOk
             /\ (putOut = "ok" \/ ~newOk) => delOk
             /\ ~newOk => putOut = "ok"
             /\ Inject(Bad(newOk) + Bad(putOut = "ok") + Bad(delOk))
             /\ client' = g.client
             /\ IF g.panic
                THEN /\ retv' = [digest |-> Nil, err |-> FALSE, panic |-> TRUE]
                     /\ UNCHANGED << remote, netLog >>
                ELSE /\ remote' = u.remote
                     /\ netLog' = netLog \o u.log
                     /\ retv' = AfterUpload(blob, u.err)
    /\ pc' = "ret"
    /\ UNCHANGED << tree, call, blob, tw, todo, fs, results, written, lastw, obs >>
    /\ UNCHANGED apart

\* the deferred calls left the blob and the file system as in d
Returned(d, rmOk) ==
    /\ blob' = d.blob
    /\ fs' = d.fs
    /\ obs' = [obs EXCEPT !.rmOk = rmOk]
    /\ results' = Append(results, Result(retv, [obs EXCEPT !.rmOk = rmOk]))

\* UploadDir returns (or unwinds after a panic): the deferred calls run
Return ==
    /\ pc = "ret"
    /\ \E disk \in Disk, closeOk \in BOOLEAN, rmOk \in BOOLEAN :
         /\ (blob.gw.closed \/ blob.gw.err) => disk = NoFault
         /\ ~blob.fopen => closeOk
         /\ Inject(DiskFault(disk) + Bad(closeOk) + Bad(rmOk))
         /\ Returned(UploadDirDefers(blob, fs, disk, closeOk, rmOk), rmOk)
    /\ pc' = IF retv.panic THEN "crashed" ELSE "idle"
    /\ UNCHANGED << tree, call, tw, todo, client, remote, netLog, retv, written, lastw >>
    /\ UNCHANGED apart

Next ==
    \/ Begin
    \/ TarStat
    \/ WalkHeader
    \/ WalkBody
    \/ TarReturn
    \/ Seal
    \/ Check
    \/ Upload
    \/ Return

Spec == Init /\ [][Next]_vars

(* ---------------------- ReaderToBlob, step by step --------------------- *)
\* The readers handed to ReaderToBlob, each as the chunks its Read calls
\* deliver before io.EOF: an empty one, one of two chunks, and one that
\* delivers the tar stream of the tree
Readers(t) == { <<>>, << <<1, 1>>, <<2>> >>, << TarStream(t) >> }

\* ReaderToBlob when NewLocalBlob failed: blob is nil, and blob.Close()
\* dereferences it (blob.pw) before anything is returned
NilBlobClose == [digest |-> Nil, err |-> FALSE, panic |-> TRUE]

\* ReaderToBlob up to the defer (blob.go 103-109)
ReadBegin ==
    /\ pc = "idle"
    /\ call < MaxCalls
    /\ \E tmpOk \in BOOLEAN, input \in Readers(tree) :
         LET nb == NewLocalBlob(fs, call + 1, tmpOk)
         IN  /\ ~tmpOk => input = <<>>
             /\ Inject(Bad(tmpOk))
             /\ call' = call + 1
             /\ fs' = nb.fs
             /\ blob' = nb.blob
             /\ fr' = input
             /\ IF nb.err
                THEN /\ results' = Append(results,
                            Result(NilBlobClose,
                                   [NewObs EXCEPT !.alloc = FALSE, !.op = "ReaderToBlob"]))
                     /\ obs' = [NewObs EXCEPT !.alloc = FALSE, !.op = "ReaderToBlob"]
                     /\ pc' = "crashed"
                ELSE /\ results' = results
                     /\ obs' = [NewObs EXCEPT !.op = "ReaderToBlob"]
                     /\ pc' = "copy"
    /\ tw' = NewTw
    /\ todo' = <<>>
    /\ retv' = NoRet
    /\ written' = <<>>
    /\ lastw' = NoWrite
    /\ UNCHANGED << tree, client, remote, netLog, addressed, zr, tr, dst >>

\* io.Copy after blob.Write returned r for the chunk p
ChunkWritten(r, p) ==
    /\ Wrote([tw |-> tw, w |-> r, wrote |-> p])
    /\ IF r.err
       THEN /\ obs' = [obs EXCEPT !.wfail = TRUE]
            /\ fr' = fr
            /\ pc' = "rfail"
       ELSE /\ obs' = obs
            /\ fr' = Tail(fr)
            /\ pc' = "copy"

\* one round of io.Copy(blob, fr): Read, then Write of what was read; the
\* loop ends at io.EOF, at a read error and at a write error (blob.go 112)
ReadCopy ==
    /\ pc = "copy"
    /\ \E readOk \in BOOLEAN, disk \in Disk :
         /\ (~readOk \/ fr = <<>>) => disk = NoFault
         /\ Inject(Bad(readOk) + DiskFault(disk))
         /\ IF ~readOk
            THEN /\ pc' = "rfail"
                 /\ UNCHANGED << blob, fs, tw, written, lastw, obs, fr >>
            ELSE IF fr = <<>>
                 THEN /\ pc' = "rseal"
                      /\ UNCHANGED << blob, fs, tw, written, lastw, obs, fr >>
                 ELSE ChunkWritten(BlobWrite(blob, fs, Head(fr), disk), Head(fr))
    /\ UNCHANGED << tree, call, todo, client, remote, netLog, retv, results, addressed,
                    zr, tr, dst >>

\* the deferred blob.Close() of ReaderToBlob left the blob and the files as
\* in c; rv goes to the caller
ReaderReturned(c, rv, o) ==
    /\ blob' = c.blob
    /\ fs' = c.fs
    /\ retv' = rv
    /\ obs' = o
    /\ results' = Append(results, Result(rv, o))

\* the copy failed: os.Remove, return nil and the error, then the deferred
\* blob.Close() (blob.go 113-116, 109)
ReadFail ==
    /\ pc = "rfail"
    /\ \E rmOk \in BOOLEAN, disk \in Disk, closeOk \in BOOLEAN :
         /\ blob.gw.err => disk = NoFault
         /\ Inject(Bad(rmOk) + DiskFault(disk) + Bad(closeOk))
         /\ ReaderReturned(BlobClose(blob, Remove(fs, blob.File, rmOk), disk, closeOk),
                           [digest |-> Nil, err |-> TRUE, panic |-> FALSE],
                           [obs EXCEPT !.rmOk = rmOk])
    /\ pc' = "idle"
    /\ UNCHANGED << tree, call, tw, todo, client, remote, netLog, written, lastw, fr,
                    addressed, zr, tr, dst >>

\* the explicit blob.Close() returned c, its result is not looked at; the
\* blob is returned and the deferred blob.Close() runs on the closed blob
ReaderSealed(c) ==
    ReaderReturned(BlobClose(c.blob, c.fs, NoFault, TRUE),
                   [digest |-> Nil, err |-> FALSE, panic |-> FALSE],
                   [obs EXCEPT !.sealed = "dropped", !.gzErr = c.gzErr, !.fcErr = c.err,
                               !.got = TRUE])

\* the copy reached io.EOF: blob.Close(), return blob (blob.go 118-120, 109)
ReadSeal ==
    /\ pc = "rseal"
    /\ \E disk \in Disk, closeOk \in BOOLEAN :
         /\ blob.gw.err => disk = NoFault
         /\ Inject(DiskFault(disk) + Bad(closeOk))
         /\ ReaderSealed(BlobClose(blob, fs, disk, closeOk))
    /\ pc' = "held"
    /\ UNCHANGED << tree, call, tw, todo, client, remote, netLog, written, lastw, fr,
                    addressed, zr, tr, dst >>

(* ------------- CheckDuplicate and UploadBlob on a returned blob -------- *)
\* values the caller gives blob.Reference
References == { <<>>, <<97>> }

\* the record of a blob and of the key a request for it went to
Addressed(b, key) ==
    [hw |-> b.hw, Reference |-> b.Reference, IsDir |-> b.IsDir, key |-> key]

\* the caller lets go of the blob: nothing of it is looked at again
Dropped ==
    /\ blob' = NoBlob
    /\ obs' = NewObs
    /\ written' = <<>>
    /\ lastw' = NoWrite

\* the caller sets the exported fields of the blob ReaderToBlob returned and
\* calls s3.CheckDuplicate(blob) (blobstore.go 65-87)
CheckBlob ==
    /\ pc = "held"
    /\ \E ref \in References, isDir \in BOOLEAN, newOk \in BOOLEAN, lookup \in Lookups :
         LET b   == [blob EXCEPT !.Reference = ref, !.IsDir = isDir]
             g   == GetClient(client, newOk)
             key == RemoteFilename(Hash(b))
             st  == StatObject(remote, key, lookup)
         IN  /\ client => newOk
             /\ ~newOk => lookup = "Ok"
             /\ Inject(Bad(newOk) + Bad(lookup = "Ok"))
             /\ client' = g.client
             /\ IF g.panic
                THEN /\ pc' = "crashed"
                     /\ blob' = b
                     /\ UNCHANGED << netLog, obs, written, lastw, addressed >>
                ELSE /\ netLog' = Append(netLog, LogEntry(call, "stat", key, ~st.err, st.size))
                     /\ addressed' = addressed \cup {Addressed(b, key)}
                     /\ IF CheckDuplicate(b, st)
                        THEN pc' = "idle" /\ Dropped
                        ELSE /\ pc' = "checked"
                             /\ blob' = b
                             /\ obs' = [obs EXCEPT !.key = key, !.lookup = st.res,
                                                   !.dup = FormatBool(FALSE)]
                             /\ UNCHANGED << written, lastw >>
    /\ UNCHANGED << tree, call, tw, todo, fs, remote, retv, results, fr, zr, tr, dst >>

\* the caller calls s3.UploadBlob(blob) (blobstore.go 90-125)
UploadBlobCall ==
    /\ pc = "checked"
    /\ \E newOk \in BOOLEAN, putOut \in PutOutcomes, delOk \in BOOLEAN :
         LET g == GetClient(client, newOk)
             u == UploadBlob(blob, fs, remote, call, putOut, delOk)
         IN  /\ client => newOk
             /\ (putOut = "ok" \/ ~newOk) => delOk
             /\ ~newOk => putOut = "ok"
             /\ Inject(Bad(newOk) + Bad(putOut = "ok") + Bad(delOk))
             /\ client' = g.client
             /\ IF g.panic
                THEN /\ pc' = "crashed"
                     /\ UNCHANGED << remote, netLog, blob, obs, written, lastw, addressed >>
                ELSE /\ remote' = u.remote
                     /\ netLog' = netLog \o u.log
                     /\ addressed' = addressed \cup
                            { Addressed(blob, u.log[i].key) : i \in DOMAIN u.log }
                     /\ pc' = "idle"
                     /\ Dropped
    /\ UNCHANGED << tree, call, tw, todo, fs, retv, results, fr, zr, tr, dst >>

\* The directory with one regular file, a bucket as in Init, and room for
\* MixFaults failures
InitAll ==
    /\ tree \in { t \in Trees : Len(t.entries) = 2 }
    /\ remote \in InitialRemotes(tree)
    /\ pc = "idle"
    /\ call = 0
    /\ blob = NoBlob
    /\ tw = NewTw
    /\ todo = <<>>
    /\ fs = << >>
    /\ client = FALSE
    /\ netLog = <<>>
    /\ retv = NoRet
    /\ results = <<>>
    /\ written = <<>>
    /\ lastw = NoWrite
    /\ obs = NewObs
    /\ faults = MaxFaults - MixFaults
    /\ Apart

\* UploadDir and ReaderToBlob calls in any sequence on one S3 value
NextAll ==
    \/ Next
    \/ ReadBegin
    \/ ReadCopy
    \/ ReadFail
    \/ ReadSeal
    \/ CheckBlob
    \/ UploadBlobCall

SpecAll == InitAll /\ [][NextAll]_vars

(* ------------------- TarDir, then Untargz of the result ---------------- *)
\* The directory trees that are packed and unpacked again: below the root,
\* for each of the names a and b, nothing, a regular file, an empty
\* directory, or a directory holding one regular file a.  The root is named
\* a (so that entries below it repeat its name) or c.
Sources == { <<97>>, <<99>> }

Datas == { <<>>, <<1, 1, 2>> }

Below(path) ==
    { <<>>, << Dir(path) >> }
        \cup { << Reg(path, d) >> : d \in Datas }
        \cup { << Dir(path), Reg(path \o <<Sep, 97>>, d) >> : d \in Datas }

TreesAt(s) ==
    { [src |-> s, exists |-> TRUE, entries |-> << Dir(s) >> \o x \o y] :
        x \in Below(s \o <<Sep, 97>>), y \in Below(s \o <<Sep, 98>>) }

DirTrees == UNION { TreesAt(s) : s \in Sources }

\* the destination given to Untargz
Dst == <<100>>

\* decompression of the (byte, run length) pairs of the compressed blocks
RECURSIVE GzInflate(_)
GzInflate(s) ==
    IF Len(s) < 2 THEN <<>>
    ELSE [i \in 1..s[2] |-> s[1]] \o GzInflate(DropFirst(s, 2))

\* pgzip.NewReader and the reads through it: the header is checked, the
\* blocks are decompressed, the trailer must give the size
Gunzip(z) ==
    IF Len(z) < Len(GzHeader) + 1 \/ ~IsPrefix(GzHeader, z)
    THEN [err |-> TRUE, data |-> <<>>]
    ELSE [err  |-> Len(GzInflate(SubSeq(z, Len(GzHeader) + 1, Len(z) - 1))) # z[Len(z)],
          data |-> GzInflate(SubSeq(z, Len(GzHeader) + 1, Len(z) - 1))]

\* position of the first NUL of s, Len(s) + 1 when there is none
RECURSIVE FirstNul(_)
FirstNul(s) == IF s = <<>> \/ s[1] = 0 THEN 1 ELSE 1 + FirstNul(Tail(s))

\* tar.Reader.Next with the content of the entry it finds: io.EOF at the end
\* of the archive, an error on a truncated entry, else name, type flag,
\* content and what follows
TrNext(s) ==
    LET k == FirstNul(s)
    IN  IF s = <<>> \/ s = TarTrailer
        THEN [eof |-> TRUE, err |-> FALSE, name |-> <<>>, typeflag |-> 0, data |-> <<>>,
              rest |-> <<>>]
        ELSE IF Len(s) < k + 2 \/ Len(s) < k + 2 + s[k + 1]
        THEN [eof |-> FALSE, err |-> TRUE, name |-> <<>>, typeflag |-> 0, data |-> <<>>,
              rest |-> <<>>]
        ELSE [eof |-> FALSE, err |-> FALSE, name |-> SubSeq(s, 1, k - 1),
              typeflag |-> s[k + 2], data |-> SubSeq(s, k + 3, k + 2 + s[k + 1]),
              rest |-> DropFirst(s, k + 2 + s[k + 1])]

\* filepath.Clean on paths without dots: a separator is dropped when another
\* one follows it and at the end
RECURSIVE Clean(_)
Clean(p) ==
    IF p = <<>> THEN <<>>
    ELSE IF p[1] = Sep /\ (Len(p) = 1 \/ p[2] = Sep) THEN Clean(Tail(p))
    ELSE << p[1] >> \o Clean(Tail(p))

\* filepath.Join(dst, name)
Join(d, name) == IF name = <<>> THEN Clean(d) ELSE Clean(d \o <<Sep>> \o name)

\* the directories above p
Ancestors(p) == { SubSeq(p, 1, i - 1) : i \in { j \in 2..Len(p) : p[j] = Sep } }

\* os.MkdirAll(target): fails when a regular file is in the way, else
\* creates what is missing
MkdirAll(d, p) ==
    IF \E a \in Ancestors(p) \cup {p} : a \in DOMAIN d /\ d[a].reg
    THEN [err |-> TRUE, dst |-> d]
    ELSE [err |-> FALSE,
          dst |-> [a \in DOMAIN d \cup Ancestors(p) \cup {p} |->
                      IF a \in DOMAIN d THEN d[a] ELSE [reg |-> FALSE, data |-> <<>>]]]

\* case tar.TypeDir: nothing when os.Stat finds the target, else MkdirAll
UntarDir(d, p) == IF p \in DOMAIN d THEN [err |-> FALSE, dst |-> d] ELSE MkdirAll(d, p)

\* case tar.TypeReg: os.OpenFile(target, O_CREATE|O_RDWR) fails when the
\* directory above is missing or the target is a directory; the content is
\* then written from the start of the file, which is not truncated
UntarReg(d, p, data) ==
    IF \/ \E a \in Ancestors(p) : a \notin DOMAIN d \/ d[a].reg
       \/ p \in DOMAIN d /\ ~d[p].reg
    THEN [err |-> TRUE, dst |-> d]
    ELSE [err |-> FALSE,
          dst |-> [a \in DOMAIN d \cup {p} |->
                      IF a # p THEN d[a]
                      ELSE [reg |-> TRUE,
                            data |-> IF p \in DOMAIN d
                                     THEN data \o DropFirst(d[p].data, Len(data))
                                     ELSE data]]]

\* the switch on header.Typeflag; other types are logged and skipped
UntarEntry(d, h) ==
    CASE h.typeflag = TypeDir -> UntarDir(d, Join(Dst, h.name))
      [] h.typeflag = TypeReg -> UntarReg(d, Join(Dst, h.name), h.data)
      [] OTHER -> [err |-> FALSE, dst |-> d]

InitRoundTrip ==
    /\ tree \in DirTrees
    /\ remote = {}
    /\ pc = "pack"
    /\ call = 0
    /\ blob = NoBlob
    /\ tw = NewTw
    /\ todo = <<>>
    /\ fs = << >>
    /\ client = FALSE
    /\ netLog = <<>>
    /\ retv = NoRet
    /\ results = <<>>
    /\ written = <<>>
    /\ lastw = NoWrite
    /\ obs = NewObs
    /\ faults = 0
    /\ Apart

\* TarDir(src, blob) and blob.Close() with nothing failing: the tar stream
\* goes through the gzip writer into the spool file (tar.go 19-78)
PackDir ==
    /\ pc = "pack"
    /\ written' = TarStream(tree)
    /\ fs' = [n \in {1} |-> GzStream(TarStream(tree))]
    /\ pc' = "packed"
    /\ UNCHANGED << tree, call, blob, tw, todo, client, remote, netLog, retv, results,
                    lastw, obs, faults, fr, addressed, zr, tr, dst >>

\* Untargz(dst, spool file) up to the loop (tar.go 84-93)
UntarOpen ==
    /\ pc = "packed"
    /\ IF Gunzip(fs[1]).err
       THEN /\ retv' = [digest |-> Nil, err |-> TRUE, panic |-> FALSE]
            /\ pc' = "untarred"
            /\ tr' = tr
       ELSE /\ retv' = retv
            /\ pc' = "untar"
            /\ tr' = Gunzip(fs[1]).data
    /\ UNCHANGED << tree, call, blob, tw, todo, fs, client, remote, netLog, results,
                    written, lastw, obs, faults, fr, addressed, zr, dst >>

\* the entry h was handled with result u
Untarred(h, u) ==
    /\ dst' = u.dst
    /\ IF u.err
       THEN /\ retv' = [digest |-> Nil, err |-> TRUE, panic |-> FALSE]
            /\ pc' = "untarred"
            /\ tr' = tr
       ELSE /\ retv' = retv
            /\ pc' = "untar"
            /\ tr' = h.rest

\* one round of the loop of Untargz (tar.go 95-155)
UntarNext ==
    /\ pc = "untar"
    /\ IF TrNext(tr).eof \/ TrNext(tr).err
       THEN /\ retv' = [digest |-> Nil, err |-> TrNext(tr).err, panic |-> FALSE]
            /\ pc' = "untarred"
            /\ UNCHANGED << tr, dst >>
       ELSE Untarred(TrNext(tr), UntarEntry(dst, TrNext(tr)))
    /\ UNCHANGED << tree, call, blob, tw, todo, fs, client, remote, netLog, results,
                    written, lastw, obs, faults, fr, addressed, zr >>

NextRoundTrip ==
    \/ PackDir
    \/ UntarOpen
    \/ UntarNext

SpecRoundTrip == InitRoundTrip /\ [][NextRoundTrip]_vars

(* ------------------------------- TarZip -------------------------------- *)
\* The entries a zip archive is made of: a directory a/, a regular file in
\* it, an empty regular file
ZipEntries == { Dir(<<97, Sep>>), Reg(<<97, Sep, 98>>, <<1, 1, 2>>), Reg(<<98>>, <<>>) }

RECURSIVE Archives(_)
\* the archives of n entries
Archives(n) ==
    IF n = 0 THEN { <<>> }
    ELSE { Append(a, e) : a \in Archives(n - 1), e \in ZipEntries }

ZipArchives == UNION { Archives(n) : n \in 0..MaxZip }

\* path.Base: trailing separators go, then everything up to the last one
RECURSIVE Base(_)
Base(p) ==
    IF p = <<>> THEN <<>>
    ELSE IF p[Len(p)] = Sep THEN Base(SubSeq(p, 1, Len(p) - 1))
    ELSE IF \E i \in DOMAIN p : p[i] = Sep THEN Base(Tail(p))
    ELSE p

\* f.FileInfo() of a zip entry: Name() is the base name
FileInfo(e) == [e EXCEPT !.file = Base(e.file)]

\* a zip archive and a new blob for TarZip to write to
InitTarZip ==
    /\ zr \in ZipArchives
    /\ tree \in { t \in Trees : ~t.exists }
    /\ remote = {}
    /\ pc = "zip"
    /\ call = 0
    /\ blob = LocalBlob(1)
    /\ tw = NewTw
    /\ todo = <<>>
    /\ fs = [n \in {1} |-> <<>>]
    /\ client = FALSE
    /\ netLog = <<>>
    /\ retv = NoRet
    /\ results = <<>>
    /\ written = <<>>
    /\ lastw = NoWrite
    /\ obs = NewObs
    /\ faults = 0
    /\ fr = <<>>
    /\ addressed = {}
    /\ tr = <<>>
    /\ dst = << >>

\* zip.NewReader and tar.NewWriter (tar.go 159-167)
ZipOpen ==
    /\ pc = "zip"
    /\ \E zipOk \in BOOLEAN :
         /\ Inject(Bad(zipOk))
         /\ IF ~zipOk
            THEN /\ retv' = [digest |-> Nil, err |-> TRUE, panic |-> FALSE]
                 /\ pc' = "zipped"
                 /\ todo' = todo
            ELSE /\ retv' = retv
                 /\ pc' = IF zr = <<>> THEN "zend" ELSE "zwalk"
                 /\ todo' = zr
    /\ tw' = NewTw
    /\ UNCHANGED << tree, call, blob, fs, client, remote, netLog, results, written, lastw,
                    obs, fr, addressed, zr, tr, dst >>

\* the loop body after tw.WriteHeader returned t: a write error is returned,
\* an entry that is no regular file ends the call with nil
ZipHeaderWritten(t) ==
    /\ Wrote(t)
    /\ IF t.w.err
       THEN /\ retv' = [digest |-> Nil, err |-> TRUE, panic |-> FALSE]
            /\ pc' = "zclose"
            /\ todo' = todo
       ELSE IF ~Head(todo).reg
            THEN /\ retv' = [digest |-> Nil, err |-> FALSE, panic |-> FALSE]
                 /\ pc' = "zclose"
                 /\ todo' = Tail(todo)
            ELSE /\ retv' = retv
                 /\ pc' = "zbody"
                 /\ todo' = todo

\* the loop body up to the test for a regular file (tar.go 169-192)
ZipHeader ==
    /\ pc = "zwalk"
    /\ \E disk \in Disk :
         /\ Inject(DiskFault(disk))
         /\ ZipHeaderWritten(TwWriteHeader(tw, blob, fs, FileInfo(Head(todo)), <<>>, disk))
    /\ UNCHANGED << tree, call, client, remote, netLog, results, obs, fr, addressed, zr,
                    tr, dst >>

\* the loop body after io.CopyBuffer returned t
ZipBodyCopied(t) ==
    /\ Wrote(t)
    /\ IF t.w.err
       THEN /\ retv' = [digest |-> Nil, err |-> TRUE, panic |-> FALSE]
            /\ pc' = "zclose"
            /\ todo' = todo
       ELSE /\ retv' = retv
            /\ todo' = Tail(todo)
            /\ pc' = IF Tail(todo) = <<>> THEN "zend" ELSE "zwalk"

\* the loop body for a regular file: f.Open and CopyBuffer (tar.go 195-207)
ZipBody ==
    /\ pc = "zbody"
    /\ \E openOk \in BOOLEAN, disk \in Disk :
         /\ (~openOk \/ Head(todo).data = <<>>) => disk = NoFault
         /\ Inject(Bad(openOk) + DiskFault(disk))
         /\ IF ~openOk
            THEN /\ retv' = [digest |-> Nil, err |-> TRUE, panic |-> FALSE]
                 /\ pc' = "zclose"
                 /\ UNCHANGED << blob, fs, tw, todo, written, lastw >>
            ELSE ZipBodyCopied(TwCopy(tw, blob, fs, Head(todo).data, disk))
    /\ UNCHANGED << tree, call, client, remote, netLog, results, obs, fr, addressed, zr,
                    tr, dst >>

\* return tw.Close() after the loop (tar.go 210)
ZipEnd ==
    /\ pc = "zend"
    /\ \E disk \in Disk :
         /\ Inject(DiskFault(disk))
         /\ Wrote(TwClose(tw, blob, fs, disk))
         /\ retv' = [digest |-> Nil, err |-> TwClose(tw, blob, fs, disk).w.err,
                     panic |-> FALSE]
    /\ pc' = "zclose"
    /\ UNCHANGED << tree, call, todo, client, remote, netLog, results, obs, fr, addressed,
                    zr, tr, dst >>

\* TarZip returns: the deferred tw.Close() runs and its result is dropped
\* (tar.go 165)
ZipReturn ==
    /\ pc = "zclose"
    /\ \E disk \in Disk :
         /\ (tw.err \/ tw.nb > 0) => disk = NoFault
         /\ Inject(DiskFault(disk))
         /\ Wrote(TwClose(tw, blob, fs, disk))
    /\ pc' = "zipped"
    /\ UNCHANGED << tree, call, todo, client, remote, netLog, retv, results, obs, fr,
                    addressed, zr, tr, dst >>

NextTarZip ==
    \/ ZipOpen
    \/ ZipHeader
    \/ ZipBody
    \/ ZipEnd
    \/ ZipReturn

SpecTarZip == InitTarZip /\ [][NextTarZip]_vars

(* ------------------------- reading the history ------------------------- *)
\* a call has returned
Done(c) == c <= Len(results)

\* the observations of call c, finished or in progress
ObsOf(c) == IF Done(c) THEN results[c].obs ELSE obs

\* positions of the requests call c made to the remote store
OpsOf(c) == { i \in DOMAIN netLog : netLog[i].call = c }

PutsOf(c) == { i \in OpsOf(c) : netLog[i].op = "put" }

\* Close has been called on the blob of the current call
Closed == blob.File # 0 /\ ~blob.fopen

(* ------------------------------- C1 ------------------------------------ *)
\* C1: whichever way UploadDir returned (duplicate found, upload succeeded,
\* packing failed, close failed, upload failed), the spool file of that call
\* no longer exists, provided the removal itself succeeded.
C1_SpoolRemoved ==
    \A c \in 1..Len(results) : results[c].obs.rmOk => c \notin DOMAIN fs

\* a call whose upload failed has returned and its spool file is gone
C1_Witness ==
    \E c \in 1..Len(results) :
        /\ results[c].err /\ results[c].digest # Nil
        /\ results[c].obs.rmOk
        /\ c \notin DOMAIN fs

(* ------------------------------- C2 ------------------------------------ *)
\* C2: CheckDuplicate answers true exactly when the lookup reported an
\* object at the blob's key whose size is blob.Size(); a call that got true
\* issues no put, a call that got false issues one.
C2_DedupCorrect ==
    /\ (pc = "upload" \/ (pc = "ret" /\ obs.dup = "true")) =>
          ( obs.dup = "true" <=>
              /\ obs.lookup \notin {"GetErr", "StatErr"}
              /\ \E o \in remote : /\ o.key = RemoteFilename(Hash(blob))
                                   /\ o.size = Size(blob) )
    /\ \A c \in 1..call :
          /\ ObsOf(c).dup = "true" => PutsOf(c) = {}
          /\ (Done(c) /\ ObsOf(c).dup = "false") => Cardinality(PutsOf(c)) = 1

\* one call found an object of another size and uploaded, the next call
\* found the duplicate
C2_Witness ==
    /\ Len(results) = 2
    /\ results[1].obs.dup = "false" /\ results[1].obs.lookup = "Found"
    /\ PutsOf(1) # {}
    /\ results[2].obs.dup = "true"
    /\ PutsOf(2) = {}

(* ------------------------------- C5 ------------------------------------ *)
\* C5: a failed put is followed by exactly one delete at the same key, and
\* the call returns an error whatever the delete did; no call puts twice.
C5_FailedPutCleanup ==
    /\ \A c \in 1..call : Cardinality(PutsOf(c)) <= 1
    /\ \A i \in DOMAIN netLog :
          /\ (netLog[i].op = "put" /\ ~netLog[i].ok) =>
                /\ i + 1 \in DOMAIN netLog
                /\ netLog[i + 1].op = "delete"
                /\ netLog[i + 1].key = netLog[i].key
                /\ netLog[i + 1].call = netLog[i].call
                /\ Done(netLog[i].call) => results[netLog[i].call].err
          /\ netLog[i].op = "delete" =>
                /\ i > 1
                /\ netLog[i - 1].op = "put" /\ ~netLog[i - 1].ok
                /\ netLog[i - 1].call = netLog[i].call

\* a call whose put failed and whose delete failed too returned an error
C5_Witness ==
    \E i \in DOMAIN netLog :
        /\ netLog[i].op = "delete" /\ ~netLog[i].ok
        /\ Done(netLog[i].call)
        /\ results[netLog[i].call].err

(* ------------------------------- C8 ------------------------------------ *)
\* C8: a call that sealed its blob returns the digest (with an error when
\* the upload failed), and that digest is the one its remote key was made
\* from; a call returns no digest only when allocation, packing or Close
\* failed.
C8_DigestReturned ==
    \A c \in 1..Len(results) :
        LET r == results[c]
        IN  ~r.panic =>
              /\ r.obs.sealed = "nil" =>
                    /\ r.digest # Nil
                    /\ \A i \in OpsOf(c) : netLog[i].key = RemoteFilename(r.digest)
                    /\ r.obs.dup = "true" => ~r.err
                    /\ r.err <=> (\E i \in PutsOf(c) : ~netLog[i].ok)
              /\ r.digest = Nil =>
                    (~r.obs.alloc \/ r.obs.tarErr \/ r.obs.sealed = "err")

\* a call whose upload failed returned both the digest and an error
C8_Witness ==
    \E c \in 1..Len(results) :
        /\ results[c].err
        /\ results[c].digest # Nil
        /\ \E i \in PutsOf(c) : ~netLog[i].ok /\ netLog[i].key = RemoteFilename(results[c].digest)

(* ------------------------------- C3 ------------------------------------ *)
\* C3: when two calls in sequence on the unchanged tree both return without
\* error and the second call's lookup completes, at most one put is made
\* across the two calls, the second call makes none, and both return the
\* same digest.
C3_IdempotentReupload ==
    ( /\ Len(results) >= 2
      /\ \A c \in 1..2 : ~results[c].err /\ ~results[c].panic
      /\ results[2].obs.lookup \in {"Found", "NotFound"} )
    => /\ Cardinality(PutsOf(1) \cup PutsOf(2)) <= 1
       /\ PutsOf(2) = {}
       /\ results[2].obs.dup = "true"
       /\ results[1].digest = results[2].digest

(* ------------------------------- C4 ------------------------------------ *)
\* the compressed counter equals the length of the spool file
SizeIsSpoolLength ==
    blob.File \in DOMAIN fs => Size(blob) = Len(fs[blob.File])

\* the uncompressed counter and the hash cover exactly the bytes passed to Write
CoversWritten ==
    /\ UncompressedSize(blob) = Len(written)
    /\ blob.hw = written
    /\ Hash(blob) = Sum(written)

C6_CloseReportsFailure ==
    \A c \in 1..call :
        (ObsOf(c).sealed # "none" /\ (ObsOf(c).gzErr \/ ObsOf(c).fcErr)) =>
            /\ ObsOf(c).sealed = "err"
            /\ OpsOf(c) = {}

(* ------------------------------- C7 ------------------------------------ *)
\* the stages of the last Write among counter, hash and compressor, in the
\* order in which they took effect
StageOrder == SelectSeq(lastw.log, LAMBDA x : x \in {"ucw", "hw", "gw"})

\* C7 as stated: every Write increments the uncompressed counter, then
\* updates the hash, then passes the chunk to the compressor.
C7_FixedOrder == lastw.p # <<>> => StageOrder = <<"ucw", "hw", "gw">>

\* C7 amended: every Write passes the chunk to the compressor first, then
\* adds the byte count the compressor accepted to the uncompressed counter,
\* then, only if the compressor took the whole chunk, updates the hash and
\* the progress bar; a Write that returns without error has applied all of
\* them to the whole chunk.
C7_CompressCountHash ==
    [][ (written' # written /\ pc \in {"walk", "body", "twclose"}) =>
          LET w == lastw'
          IN  /\ w.p = SubSeq(written', Len(written) + 1, Len(written'))
              /\ blob'.ucw = blob.ucw + w.n
              /\ blob'.ccw = blob.ccw + (Len(fs'[blob.File]) - Len(fs[blob.File]))
              /\ IF w.err
                 THEN /\ w.log = <<"gw", "ucw">>
                      /\ blob'.hw = blob.hw
                      /\ blob'.pw = blob.pw
                 ELSE /\ w.log = <<"gw", "ucw", "hw", "pw">>
                      /\ w.n = Len(w.p)
                      /\ blob'.gw.size = blob.gw.size + Len(w.p)
                      /\ blob'.hw = blob.hw \o w.p
                      /\ blob'.pw = blob.pw + Len(w.p) ]_vars

\* a Write has returned without error after the compressor emitted a block
\* to the spool file
C7_Witness ==
    /\ pc \in {"walk", "body", "twclose"}
    /\ lastw.p # <<>> /\ ~lastw.err
    /\ lastw.log = <<"gw", "ucw", "hw", "pw">>
    /\ Len(fs[blob.File]) > Len(GzHeader)
    /\ blob.hw = written

(* ------------------------------- C9 ------------------------------------ *)
\* C9: a call in which the temporary file could not be allocated or packing
\* failed (TarDir returned an error or one of the packer's writes to the
\* blob failed) makes no request to the remote store and returns an error.
C9_PackFailureNoNetwork ==
    \A c \in 1..call :
        (~ObsOf(c).alloc \/ ObsOf(c).tarErr \/ ObsOf(c).wfail) =>
            /\ OpsOf(c) = {}
            /\ Done(c) => results[c].err

(* ------------------------------- C10 ----------------------------------- *)
\* C10: a duplicate check that cannot be completed (client not obtained,
\* lookup error, object not found) never ends the call: the call goes on to
\* the upload and does not crash.
C10_CheckNeverAborts ==
    /\ pc # "crashed"
    /\ \A c \in 1..Len(results) :
          /\ ~results[c].panic
          /\ results[c].obs.lookup \in {"GetErr", "StatErr", "NotFound"} =>
                Cardinality(PutsOf(c)) = 1

(* ------------------------------- C11 ----------------------------------- *)
\* blob is the blob of an UploadDir call, under way or just finished, that
\* has made requests
UploadDirAsked ==
    /\ obs.op = "UploadDir"
    /\ blob.File = call
    /\ OpsOf(call) # {}

\* the requests of that call went to the key k
UploadDirKey(k) == UploadDirAsked /\ \A i \in OpsOf(call) : netLog[i].key = k

\* C11: the key of every request is "blob/" + lower-case hex of the digest
\* + ".gz" and depends on nothing else: two blobs with the same content are
\* addressed by the same key whatever their Reference and IsDir, and all the
\* requests of one call (existence check, put, delete) go to one key.
C11_KeyFromDigest ==
    /\ \A x \in addressed :
          /\ x.key = <<"b", "l", "o", "b", "/">> \o Hex(Sum(x.hw)) \o <<".", "g", "z">>
          /\ \A y \in addressed : x.hw = y.hw => x.key = y.key
          /\ (UploadDirAsked /\ blob.hw = x.hw) => UploadDirKey(x.key)
    /\ UploadDirAsked =>
          UploadDirKey(<<"b", "l", "o", "b", "/">> \o Hex(Sum(blob.hw)) \o <<".", "g", "z">>)
    /\ \A c \in 1..call : \A i, j \in OpsOf(c) : netLog[i].key = netLog[j].key

\* a blob made by ReaderToBlob, not a directory and with a reference name,
\* was put under the key at which UploadDir then looks for the blob of the
\* directory, whose content is the same
C11_Witness ==
    /\ UploadDirKey(RemoteFilename(Hash(blob)))
    /\ blob.IsDir /\ blob.Reference = <<>>
    /\ \E x \in addressed :
          /\ x.hw = blob.hw
          /\ ~x.IsDir /\ x.Reference # <<>>
          /\ UploadDirKey(x.key)
          /\ \E i \in DOMAIN netLog : netLog[i].op = "put" /\ netLog[i].key = x.key
                                      /\ netLog[i].call # call

(* ------------------------------- C12 ----------------------------------- *)
\* the path below the root r
Rel(p, r) == TrimPrefix(TrimPrefix(p, r), <<Sep>>)

\* the directories and regular files of the tree: relative path, kind, content
Files(t) ==
    { [path |-> Rel(t.entries[i].file, t.src), reg |-> t.entries[i].reg,
       data |-> t.entries[i].data] : i \in DOMAIN t.entries }

\* the same of what Untargz created
Extracted ==
    { [path |-> Rel(p, Dst), reg |-> dst[p].reg, data |-> dst[p].data] : p \in DOMAIN dst }

\* C12: for every directory tree, also one whose entries repeat the name of
\* the source directory, Untargz of what TarDir packed returns no error and
\* has created the same directories and files, with the same relative paths
\* and the same content.
C12_RoundTrip ==
    pc = "untarred" => (~retv.err /\ Extracted = Files(tree))

(* ------------------------------- C13 ----------------------------------- *)
\* the finished ReaderToBlob calls
ReaderCalls == { c \in 1..Len(results) : results[c].obs.op = "ReaderToBlob" }

\* C13: a ReaderToBlob call never crashes; when the temporary file could
\* not be allocated or the copy failed it returns no blob and an error and,
\* provided the removal itself succeeded, leaves no spool file; otherwise it
\* returns a blob on which Close has been called and whose spool file exists.
C13_ReaderFailurePaths ==
    \A c \in ReaderCalls :
        LET r == results[c]
        IN  /\ ~r.panic
            /\ (~r.obs.alloc \/ r.obs.wfail) => r.err
            /\ r.err => /\ ~r.obs.got
                        /\ r.obs.rmOk => c \notin DOMAIN fs
            /\ ~r.err => /\ r.obs.got
                         /\ r.obs.sealed # "none"
                         /\ c \in DOMAIN fs

(* ------------------------------- C14 ----------------------------------- *)
\* the next step calls CheckDuplicate or UploadBlob, which read Hash(),
\* Size() and UncompressedSize()
Reading == pc \in {"check", "upload", "held", "checked"}

\* C14: in UploadDir and in ReaderToBlob, once Close has been called on the
\* blob no Write reaches it (neither counter nor hash moves), and the remote
\* key, the size compared with the remote object, the metadata of the
\* upload and the digest returned are taken from the blob only after Close
\* has been called on it.
C14_SealedBeforeRead ==
    [][ /\ (Closed /\ blob'.File = blob.File) =>
              /\ written' = written
              /\ lastw' = lastw
              /\ blob'.hw = blob.hw
              /\ blob'.ucw = blob.ucw
        /\ Reading => Closed
        /\ netLog' # netLog => Closed
        /\ addressed' # addressed => Closed
        /\ (retv' # retv /\ retv'.digest # Nil) => Closed ]_vars

\* UploadDir has uploaded the blob of the directory and returned its digest;
\* a blob that ReaderToBlob filled and closed has then been looked up
C14_Witness ==
    /\ call = 2
    /\ results[1].obs.op = "UploadDir"
    /\ results[1].digest # Nil
    /\ PutsOf(1) # {}
    /\ pc = "checked"
    /\ Closed
    /\ written # <<>>
    /\ blob.hw = written
    /\ OpsOf(2) # {}

(* ------------------------------- C15 ----------------------------------- *)
\* one tar entry for every entry of the archive, in archive order, and the
\* end-of-archive marker
RECURSIVE ZipTarEntries(_)
ZipTarEntries(es) ==
    IF es = <<>> THEN <<>>
    ELSE TarHeader(FileInfo(Head(es)), <<>>) \o Head(es).data \o ZipTarEntries(Tail(es))

\* C15: when TarZip returns nil, every entry of the archive has been
\* processed and the writer has received one tar entry for each of them, in
\* archive order (header, and content for a regular file), whatever mix of
\* directories and regular files the archive holds.
C15_EveryEntryWritten ==
    (pc = "zipped" /\ ~retv.err) =>
        /\ todo = <<>>
        /\ IsPrefix(ZipTarEntries(zr), written)

====
